---- MODULE Spec2Model ----
(***************************************************************************)
(* Model of rush_hour.py: the Rush Hour solver.  A state (a "board" in the *)
(* source's run) is a tuple of Car records; get_board derives the 6x6      *)
(* occupancy grid, possible_moves yields the one-cell slides, run is the   *)
(* breadth-first search over a deque with a visited set, print_moves       *)
(* renders the path.                                                       *)
(***************************************************************************)
EXTENDS Integers, Sequences, FiniteSets, TLC

VARIABLES initial_cars, pc, queue, boards_seen, board, history, moves, log

vars == <<initial_cars, pc, queue, boards_seen, board, history, moves, log>>

\* ---------------------------------------------------------------- constants
BOARD_SIZE == 6

EMPTY_CELL == " "

HORIZONTAL == "HORIZONTAL"

VERTICAL == "VERTICAL"

Car(name, x, y, size, direction) ==
    [name |-> name, x |-> x, y |-> y, size |-> size, direction |-> direction]

ENDPOINT == Car("r", 2, 4, 2, HORIZONTAL)

\* ------------------------------------------------------------------- bounds
\* Largest number of vehicles in an initial configuration.
MaxCars == 3

\* ---------------------------------------------------------------- get_board
\* A Python list index i is valid iff -len <= i < len; a negative index
\* counts from the end.
IndexOk(i) == i >= -BOARD_SIZE /\ i < BOARD_SIZE

Idx(i) == i % BOARD_SIZE

Cells == (0 .. BOARD_SIZE - 1) \X (0 .. BOARD_SIZE - 1)

\* The indices (row, column) that get_board writes for one car, in order.
CarWrites(car) ==
    IF car.direction = HORIZONTAL
    THEN [i \in 1 .. car.size |-> <<car.x, car.y + (i - 1)>>]
    ELSE [i \in 1 .. car.size |-> <<car.x + (i - 1), car.y>>]

\* get_board raises IndexError when a write falls outside the lists.
GetBoardRaises(cars) ==
    \E k \in 1 .. Len(cars) :
        \E i \in 1 .. cars[k].size :
            LET w == CarWrites(cars[k])[i]
            IN  ~ (IndexOk(w[1]) /\ IndexOk(w[2]))

\* The grid after writing cars[k], cars[k+1], ... onto grid b in order.
RECURSIVE WriteCars(_, _, _)
WriteCars(cars, k, b) ==
    IF k > Len(cars) THEN b
    ELSE LET car == cars[k]
             ws  == {<<Idx(CarWrites(car)[i][1]), Idx(CarWrites(car)[i][2])>> :
                        i \in 1 .. car.size}
         IN  WriteCars(cars, k + 1,
                       [c \in Cells |-> IF c \in ws THEN car.name ELSE b[c]])

get_board(cars) == WriteCars(cars, 1, [c \in Cells |-> EMPTY_CELL])

\* board[i][j] as Python evaluates it.
Cell(b, i, j) == b[<<Idx(i), Idx(j)>>]

\* An update that inserts the new car and keeps the old one.
update_cars_tuple_insert(cars, index, new_car) ==
    SubSeq(cars, 1, index - 1) \o <<new_car>> \o SubSeq(cars, index, Len(cars))

\* --------------------------------------------------------- update_cars_tuple
\* A replacement that drops the old car and appends the new one at the end.
update_cars_tuple_append(cars, index, new_car) ==
    Append(SubSeq(cars, 1, index - 1) \o SubSeq(cars, index + 1, Len(cars)), new_car)

update_cars_tuple(cars, index, new_car) == [cars EXCEPT ![index] = new_car]

\* ----------------------------------------------------------- possible_moves
CanMoveRight(b, car) ==
    car.y + car.size < BOARD_SIZE /\ Cell(b, car.x, car.y + car.size) = EMPTY_CELL

\* Move left with the bound test admitting column 0.
CanMoveLeft_ge(b, car) ==
    car.y >= 0 /\ Cell(b, car.x, car.y - 1) = EMPTY_CELL

CanMoveLeft(b, car) ==
    car.y > 0 /\ Cell(b, car.x, car.y - 1) = EMPTY_CELL

\* Move down with the bound test stopping one row short of the bottom.
CanMoveDown_short(b, car) ==
    car.x + car.size < BOARD_SIZE - 1 /\ Cell(b, car.x + car.size, car.y) = EMPTY_CELL

CanMoveDown(b, car) ==
    car.x + car.size < BOARD_SIZE /\ Cell(b, car.x + car.size, car.y) = EMPTY_CELL

\* Move up with the bound test off by one.
CanMoveUp_gt1(b, car) ==
    car.x > 1 /\ Cell(b, car.x - 1, car.y) = EMPTY_CELL

CanMoveUp(b, car) ==
    car.x > 0 /\ Cell(b, car.x - 1, car.y) = EMPTY_CELL

\* The moved car with the two deltas applied to the wrong coordinates.
MovedCar_swapped(car, dx, dy) ==
    Car(car.name, car.x + dy, car.y + dx, car.size, car.direction)

MovedCar(car, dx, dy) == Car(car.name, car.x + dx, car.y + dy, car.size, car.direction)

\* The successors yielded for the car at index i, in the order of the yields.
CarMoves(cars, b, i) ==
    LET car == cars[i]
    IN  IF car.direction = HORIZONTAL
        THEN (IF CanMoveRight(b, car)
              THEN <<update_cars_tuple(cars, i, MovedCar(car, 0, 1))>> ELSE <<>>)
             \o
             (IF CanMoveLeft(b, car)
              THEN <<update_cars_tuple(cars, i, MovedCar(car, 0, -1))>> ELSE <<>>)
        ELSE (IF CanMoveDown(b, car)
              THEN <<update_cars_tuple(cars, i, MovedCar(car, 1, 0))>> ELSE <<>>)
             \o
             (IF CanMoveUp(b, car)
              THEN <<update_cars_tuple(cars, i, MovedCar(car, -1, 0))>> ELSE <<>>)

RECURSIVE MovesFrom(_, _, _)
MovesFrom(cars, b, i) ==
    IF i > Len(cars) THEN <<>>
    ELSE CarMoves(cars, b, i) \o MovesFrom(cars, b, i + 1)

possible_moves(cars) == MovesFrom(cars, get_board(cars), 1)

\* -------------------------------------------------------------- print_moves
\* The step count taken as the number of boards on the path.
StepCount_len(h) == Len(h)

StepCount(h) == Len(h) - 1

\* The lines of one pair with the labels Up and Down exchanged.
PairLines_ud(car1, car2) ==
    IF car1 = car2 THEN <<>>
    ELSE (IF car1.x > car2.x THEN <<<<car1.name, "Down">>>> ELSE <<>>)
         \o (IF car1.x < car2.x THEN <<<<car1.name, "Up">>>> ELSE <<>>)
         \o (IF car1.y > car2.y THEN <<<<car1.name, "Left">>>> ELSE <<>>)
         \o (IF car1.y < car2.y THEN <<<<car1.name, "Right">>>> ELSE <<>>)

\* The lines for one pair with the two column labels exchanged.
PairLines_lr(car1, car2) ==
    IF car1 = car2 THEN <<>>
    ELSE (IF car1.x > car2.x THEN <<<<car1.name, "Up">>>> ELSE <<>>)
         \o (IF car1.x < car2.x THEN <<<<car1.name, "Down">>>> ELSE <<>>)
         \o (IF car1.y > car2.y THEN <<<<car1.name, "Right">>>> ELSE <<>>)
         \o (IF car1.y < car2.y THEN <<<<car1.name, "Left">>>> ELSE <<>>)

\* The lines logged for one zipped pair of cars.
PairLines(car1, car2) ==
    IF car1 = car2 THEN <<>>
    ELSE (IF car1.x > car2.x THEN <<<<car1.name, "Up">>>> ELSE <<>>)
         \o (IF car1.x < car2.x THEN <<<<car1.name, "Down">>>> ELSE <<>>)
         \o (IF car1.y > car2.y THEN <<<<car1.name, "Left">>>> ELSE <<>>)
         \o (IF car1.y < car2.y THEN <<<<car1.name, "Right">>>> ELSE <<>>)

Min(a, b) == IF a < b THEN a ELSE b

RECURSIVE ZipLines(_, _, _)
ZipLines(s1, s2, k) ==
    IF k > Min(Len(s1), Len(s2)) THEN <<>>
    ELSE PairLines(s1[k], s2[k]) \o ZipLines(s1, s2, k + 1)

RECURSIVE MoveLines(_, _)
MoveLines(h, i) ==
    IF i >= Len(h) THEN <<>>
    ELSE ZipLines(h[i], h[i + 1], 1) \o MoveLines(h, i + 1)

print_moves(h) == <<<<"Total number of steps", StepCount(h)>>>> \o MoveLines(h, 1)

\* ---------------------------------------------------------------- the deque
\* A push onto the end that pop takes from.
appendleft_right(q, e) == q \o <<e>>

\* queue is the deque read left to right.
appendleft(q, e) == <<e>> \o q

\* An extendleft that puts the items in front as a block, in their own order.
extendleft_block(q, items) == items \o q

\* An extendleft that leaves out the entries whose board is already visited.
extendleft_unseen(q, items) ==
    LET kept == SelectSeq(items, LAMBDA e : e.board \notin boards_seen)
    IN  [i \in 1 .. Len(kept) |-> kept[Len(kept) + 1 - i]] \o q

RECURSIVE extendleft(_, _)
extendleft(q, items) ==
    IF items = <<>> THEN q
    ELSE extendleft(appendleft(q, Head(items)), Tail(items))

\* The pop end taken to be the end that receives the pushes.
PopIndex_left(q) == 1

\* queue.pop() takes the rightmost entry.
PopIndex(q) == Len(q)

PopItem(q) == q[PopIndex(q)]

\* A pop that reads the entry and leaves it in the deque.
PopRest_keep(q) == q

\* The deque after queue.pop().
PopRest(q) == SubSeq(q, 1, PopIndex(q) - 1) \o SubSeq(q, PopIndex(q) + 1, Len(q))

Entry(b, h) == [board |-> b, history |-> h]

\* A goal test that looks for the target's name only.
IsGoal_name(b) == \E k \in 1 .. Len(b) : b[k].name = ENDPOINT.name

\* ENDPOINT in board.
IsGoal(b) == \E k \in 1 .. Len(b) : b[k] = ENDPOINT

\* ------------------------------------------------------------------- inputs
\* The target vehicle's starting placements.
RStarts == {Car("r", 2, y, 2, HORIZONTAL) : y \in {0, 2, 4}}

\* The vehicles an initial configuration draws for its k-th position: the
\* second is a vertical vehicle across row 2 in column 4; the third may box
\* column 4 in, move freely on row 0, leave the grid, lie across r's row or
\* repeat the name a; the later ones move in column 5.
LotAt(k) ==
    IF k = 2
    THEN { Car("a", 1, 4, 2, VERTICAL), Car("a", 2, 4, 2, VERTICAL),
           Car("a", 0, 4, 3, VERTICAL), Car("a", 1, 4, 3, VERTICAL),
           Car("a", 2, 4, 3, VERTICAL) }
    ELSE IF k = 3
    THEN { Car("b", 3, 4, 3, VERTICAL), Car("b", 0, 2, 2, HORIZONTAL),
           Car("b", 4, 5, 3, VERTICAL), Car("b", 1, 3, 2, VERTICAL),
           Car("a", 4, 0, 2, HORIZONTAL) }
    ELSE { Car("c", 0, 5, 2, VERTICAL) }

\* The tuples of cars for positions 2 .. n, of every length.
RECURSIVE TailsUpTo(_)
TailsUpTo(n) ==
    IF n <= 1 THEN {<<>>}
    ELSE LET shorter == TailsUpTo(n - 1)
         IN  shorter \cup {Append(s, e) : s \in {t \in shorter : Len(t) = n - 2},
                                          e \in LotAt(n)}

InitialConfigs == {<<r>> \o s : r \in RStarts, s \in TailsUpTo(MaxCars)}

\* ------------------------------------------------------------------ actions
Init ==
    /\ initial_cars \in InitialConfigs
    /\ pc = "main"
    /\ queue = <<>>
    /\ boards_seen = {}
    /\ board = <<>>
    /\ history = <<>>
    /\ moves = <<>>
    /\ log = <<>>

\* main logs the initial board (get_board) and enters run, which seeds the deque.
Start ==
    /\ pc = "main"
    /\ IF GetBoardRaises(initial_cars)
       THEN /\ pc' = "IndexError"
            /\ UNCHANGED <<queue, log>>
       ELSE /\ pc' = "loop"
            /\ queue' = appendleft(<<>>, Entry(initial_cars, <<>>))
            /\ log' = <<<<"Initial board">>>>
    /\ UNCHANGED <<initial_cars, boards_seen, board, history, moves>>

\* A visited-set test that never finds the board.
AlreadySeen_never(S) == FALSE

\* The visited-set test of run: board in boards_seen.
AlreadySeen(S) == S \in boards_seen

\* The entries built with the path as it was popped, without the board
\* just processed.
Entries_stale(items, h) ==
    [k \in 1 .. Len(items) |-> Entry(items[k], SubSeq(h, 1, Len(h) - 1))]

\* The generator handed to extendleft: one entry per yielded move.
Entries(items, h) == [k \in 1 .. Len(items) |-> Entry(items[k], h)]

\* One iteration that pops a board already processed and continues.
Discard ==
    /\ pc = "loop"
    /\ queue # <<>>
    /\ board' = PopItem(queue).board
    /\ history' = PopItem(queue).history
    /\ AlreadySeen(board')
    /\ queue' = PopRest(queue)
    /\ moves' = <<>>
    /\ UNCHANGED <<initial_cars, pc, boards_seen, log>>

\* One iteration that pops the goal: print_moves, break, and main's last line.
Found ==
    /\ pc = "loop"
    /\ queue # <<>>
    /\ board' = PopItem(queue).board
    /\ ~ AlreadySeen(board')
    /\ boards_seen' = boards_seen \cup {board'}
    /\ history' = Append(PopItem(queue).history, board')
    /\ IsGoal(board')
    /\ log' = log \o print_moves(history') \o <<<<"Finding a solution took">>>>
    /\ queue' = PopRest(queue)
    /\ moves' = <<>>
    /\ pc' = "break"
    /\ UNCHANGED initial_cars

\* One iteration that pops a new board and pushes its successors.
Expand ==
    /\ pc = "loop"
    /\ queue # <<>>
    /\ board' = PopItem(queue).board
    /\ ~ AlreadySeen(board')
    /\ boards_seen' = boards_seen \cup {board'}
    /\ history' = Append(PopItem(queue).history, board')
    /\ ~ IsGoal(board')
    /\ IF GetBoardRaises(board')
       THEN /\ pc' = "IndexError"
            /\ moves' = <<>>
            /\ queue' = PopRest(queue)
       ELSE /\ pc' = "loop"
            /\ moves' = possible_moves(board')
            /\ queue' = extendleft(PopRest(queue), Entries(moves', history'))
    /\ UNCHANGED <<initial_cars, log>>

\* The while condition fails: run returns and main logs its last line.
Exhausted ==
    /\ pc = "loop"
    /\ queue = <<>>
    /\ pc' = "exhausted"
    /\ log' = Append(log, <<"Finding a solution took">>)
    /\ UNCHANGED <<initial_cars, queue, boards_seen, board, history, moves>>

Next == Start \/ Discard \/ Found \/ Expand \/ Exhausted

Spec == Init /\ [][Next]_vars

FairSpec == Spec /\ WF_vars(Next)

\* ------------------------------------------------------------- vocabulary
Range(s) == {s[k] : k \in 1 .. Len(s)}

Footprint(car) ==
    IF car.direction = HORIZONTAL
    THEN {<<car.x, car.y + i>> : i \in 0 .. car.size - 1}
    ELSE {<<car.x + i, car.y>> : i \in 0 .. car.size - 1}

InGrid(car) == Footprint(car) \subseteq Cells

WellFormed(cars) ==
    \A k \in 1 .. Len(cars) :
        /\ cars[k].size \in {2, 3}
        /\ InGrid(cars[k])
        /\ \A j \in 1 .. Len(cars) :
               j # k => /\ cars[j].name # cars[k].name
                        /\ Footprint(cars[j]) \cap Footprint(cars[k]) = {}

Terminal == pc \in {"break", "exhausted", "IndexError"}

\* The last iteration of the loop processed (did not discard) the popped board.
Expanded == pc = "loop" /\ history # <<>> /\ history[Len(history)] = board

\* The count in the "Total number of steps" line, -1 when there is no such line.
ReportedSteps ==
    IF \E i \in 1 .. Len(log) : log[i][1] = "Total number of steps"
    THEN (CHOOSE l \in Range(log) : l[1] = "Total number of steps")[2]
    ELSE -1

\* The (name, direction) lines of the log.
ReportedMoves == SelectSeq(log, LAMBDA l : Len(l) = 2 /\ l[1] # "Total number of steps")

Successors(S) == Range(possible_moves(S))

\* Length of a shortest path of possible_moves steps from a board of
\* `frontier` to a board holding ENDPOINT, by layers; -1 when there is none.
RECURSIVE MinMoves(_, _, _)
MinMoves(frontier, reached, d) ==
    IF \E S \in frontier : IsGoal(S) THEN d
    ELSE IF frontier = {} THEN -1
    ELSE LET reached2 == reached \cup frontier
         IN  MinMoves((UNION {Successors(S) : S \in frontier}) \ reached2, reached2, d + 1)

QueueBoards == {queue[i].board : i \in 1 .. Len(queue)}

\* ----------------------------------------------------------------- claims
\* C1: for a well-formed initial configuration from which a board holding
\* ENDPOINT is reachable, run ends by finding the goal and the step count it
\* reports is the minimum number of one-cell moves to any such board.
C1_ShortestSolution ==
    (Terminal /\ WellFormed(initial_cars)
        /\ MinMoves({initial_cars}, {}, 0) >= 0)
    => (pc = "break" /\ ReportedSteps = MinMoves({initial_cars}, {}, 0))

C1_Witness ==
    /\ pc = "break"
    /\ WellFormed(initial_cars)
    /\ Len(initial_cars) = 3
    /\ ReportedSteps >= 5

\* C2: from a well-formed initial configuration, every board in the queue or
\* in the visited set has every footprint inside the grid and no two
\* footprints sharing a cell.
C2_FootprintsStayLegal ==
    WellFormed(initial_cars)
    => \A S \in boards_seen \cup QueueBoards :
           \A k \in 1 .. Len(S) :
               /\ InGrid(S[k])
               /\ \A j \in 1 .. Len(S) :
                      j # k => Footprint(S[j]) \cap Footprint(S[k]) = {}

C2_Witness ==
    /\ WellFormed(initial_cars)
    /\ Cardinality(boards_seen) >= 10
    /\ Len(queue) >= 3
    /\ \E k \in 1 .. Len(board) : board[k].x + board[k].size = BOARD_SIZE

\* What a one-cell slide is, stated on footprints rather than on the grid.
Free(S, cell) == cell \in Cells /\ \A k \in 1 .. Len(S) : cell \notin Footprint(S[k])

Slide(S, i, dx, dy) == [S EXCEPT ![i].x = @ + dx, ![i].y = @ + dy]

LegalSlides(S) ==
    LET H == {i \in 1 .. Len(S) : S[i].direction = HORIZONTAL}
        V == {i \in 1 .. Len(S) : S[i].direction = VERTICAL}
    IN  {Slide(S, i, 0, 1) : i \in {i \in H :
            S[i].y + S[i].size < 6 /\ Free(S, <<S[i].x, S[i].y + S[i].size>>)}}
        \cup
        {Slide(S, i, 0, -1) : i \in {i \in H :
            S[i].y > 0 /\ Free(S, <<S[i].x, S[i].y - 1>>)}}
        \cup
        {Slide(S, i, 1, 0) : i \in {i \in V :
            S[i].x + S[i].size < 6 /\ Free(S, <<S[i].x + S[i].size, S[i].y>>)}}
        \cup
        {Slide(S, i, -1, 0) : i \in {i \in V :
            S[i].x > 0 /\ Free(S, <<S[i].x - 1, S[i].y>>)}}

\* C3: for a well-formed board, possible_moves yields exactly the legal
\* one-cell slides (right/left for a horizontal vehicle, down/up for a
\* vertical one, each iff the bound test passes and the next cell is empty),
\* each once: no other successor, and no legal slide omitted.
C3_ExactlyLegalSlides ==
    (Expanded /\ WellFormed(board))
    => /\ Range(moves) = LegalSlides(board)
       /\ Len(moves) = Cardinality(LegalSlides(board))

C3_Witness ==
    /\ Expanded
    /\ WellFormed(board)
    /\ Len(board) = 3
    /\ Len(moves) >= 3
    /\ \E i \in 1 .. Len(board) :
           /\ board[i].direction = VERTICAL
           /\ board[i].x > 0
           /\ ~ Free(board, <<board[i].x - 1, board[i].y>>)
    /\ \E i \in 1 .. Len(board) :
           board[i].direction = HORIZONTAL /\ board[i].y = 0

Abs(n) == IF n < 0 THEN -n ELSE n

\* C4: every successor yielded by possible_moves(S) differs from S in exactly
\* one vehicle, which keeps its name, length and orientation and moves by
\* exactly one cell along its own axis; every other vehicle is unchanged.
C4_OneCarOneCell ==
    Expanded
    => \A k \in 1 .. Len(moves) :
           LET T == moves[k]
           IN  /\ Len(T) = Len(board)
               /\ \E i \in 1 .. Len(board) :
                      /\ \A j \in 1 .. Len(board) : j # i => T[j] = board[j]
                      /\ T[i].name = board[i].name
                      /\ T[i].size = board[i].size
                      /\ T[i].direction = board[i].direction
                      /\ IF board[i].direction = HORIZONTAL
                         THEN T[i].x = board[i].x /\ Abs(T[i].y - board[i].y) = 1
                         ELSE T[i].y = board[i].y /\ Abs(T[i].x - board[i].x) = 1

C4_Witness ==
    /\ Expanded
    /\ Len(moves) >= 4
    /\ \E k \in 1 .. Len(moves) : moves[k][1] # board[1]
    /\ \E k \in 1 .. Len(moves) : moves[k][Len(board)] # board[Len(board)]

\* C5: for a well-formed initial configuration the loop of run ends: either a
\* board holding the target is dequeued (break) or the queue becomes empty.
C5_SearchTerminates ==
    WellFormed(initial_cars) ~> (pc = "break" \/ (pc = "exhausted" /\ queue = <<>>))

C5_Witness ==
    /\ WellFormed(initial_cars)
    /\ pc = "exhausted"
    /\ queue = <<>>
    /\ Len(initial_cars) = 3
    /\ Cardinality(boards_seen) >= 3

\* C6 (as claimed): when no reachable board holds the target, the search ends
\* with the queue exhausted and reports the puzzle unsolvable explicitly,
\* without raising and without a step count or move list.
C6_UnsolvableReported ==
    (Terminal /\ WellFormed(initial_cars) /\ MinMoves({initial_cars}, {}, 0) = -1)
    => /\ pc = "exhausted"
       /\ queue = <<>>
       /\ ReportedSteps = -1
       /\ ReportedMoves = <<>>
       /\ \E i \in 1 .. Len(log) : log[i][1] = "No solution"

\* The scenario of C7: r on row 2 at columns {2,3} and one vertical vehicle
\* lying across row 2 in column 4.
C7_Scenario ==
    /\ Len(initial_cars) = 2
    /\ initial_cars[1] = Car("r", 2, 2, 2, HORIZONTAL)
    /\ initial_cars[2].direction = VERTICAL
    /\ InGrid(initial_cars[2])
    /\ <<2, 4>> \in Footprint(initial_cars[2])

\* One-cell slides the blocker needs to leave row 2, upwards and downwards.
C7_SlidesUp(c) == c.x + c.size - 2

C7_SlidesDown(c) == 3 - c.x

C7_GoesUp(c) == c.size = 2 /\ C7_SlidesUp(c) < C7_SlidesDown(c)

C7_BlockerSlides(c) == IF C7_GoesUp(c) THEN C7_SlidesUp(c) ELSE C7_SlidesDown(c)

C7_ExpectedMoves(c) ==
    [i \in 1 .. C7_BlockerSlides(c) |-> <<c.name, IF C7_GoesUp(c) THEN "Up" ELSE "Down">>]
    \o << <<"r", "Right">>, <<"r", "Right">> >>

\* C7 (as claimed): in the scenario the solver finds a solution of exactly
\* 2 steps.
C7_TwoSteps ==
    (C7_Scenario /\ Terminal) => (pc = "break" /\ ReportedSteps = 2)

\* C7 (amended): in the scenario the solver finds a solution of k + 2 steps,
\* k >= 1 being the one-cell slides the blocker needs to leave row 2: the
\* blocker slides out, then r moves right twice and reaches columns {4,5}.
C7_BlockerOutThenTwoRight ==
    (C7_Scenario /\ Terminal)
    => /\ pc = "break"
       /\ C7_BlockerSlides(initial_cars[2]) >= 1
       /\ ReportedSteps = C7_BlockerSlides(initial_cars[2]) + 2
       /\ ReportedMoves = C7_ExpectedMoves(initial_cars[2])
       /\ Footprint(board[1]) = {<<2, 4>>, <<2, 5>>}

C7_Witness ==
    /\ C7_Scenario
    /\ pc = "break"
    /\ ReportedSteps = 3
    /\ ReportedMoves = << <<"a", "Up">>, <<"r", "Right">>, <<"r", "Right">> >>

\* C8: when the initial configuration already holds the target at the goal
\* placement, the first dequeued board ends the search: nothing is expanded,
\* the reported step count is 0 and the move list is empty.
C8_AlreadySolved ==
    (IsGoal(initial_cars) /\ pc # "IndexError")
    => /\ pc \in {"main", "loop", "break"}
       /\ pc = "loop" => (boards_seen = {} /\ queue = <<Entry(initial_cars, <<>>)>>)
       /\ pc = "break" => /\ boards_seen = {initial_cars}
                          /\ history = <<initial_cars>>
                          /\ queue = <<>>
                          /\ moves = <<>>
                          /\ ReportedSteps = 0
                          /\ ReportedMoves = <<>>

C8_Witness ==
    /\ IsGoal(initial_cars)
    /\ Len(initial_cars) = 3
    /\ pc = "break"
    /\ ReportedSteps = 0

\* C9 (as claimed): a malformed initial configuration (a vehicle outside the
\* grid, a repeated name, two vehicles on one cell) is rejected before the
\* search begins: no board is dequeued or expanded.
C9_MalformedRejected ==
    ~ WellFormed(initial_cars) => (boards_seen = {} /\ board = <<>>)

Perms(n) == {f \in [1 .. n -> 1 .. n] : \A i, j \in 1 .. n : i # j => f[i] # f[j]}

Permuted(S, f) == [i \in 1 .. Len(S) |-> S[f[i]]]

Differing(S, T) == {k \in 1 .. Min(Len(S), Len(T)) : S[k] # T[k]}

\* C11: in the path logged on success, the first State is the initial
\* configuration, every two consecutive States differ in exactly one vehicle
\* and the later one is a possible_moves successor of the earlier one.
C11_PathOfSingleMoves ==
    pc = "break"
    => /\ history[1] = initial_cars
       /\ \A i \in 1 .. Len(history) - 1 :
              /\ Len(history[i + 1]) = Len(history[i])
              /\ Cardinality(Differing(history[i], history[i + 1])) = 1
              /\ history[i + 1] \in Successors(history[i])

C11_Witness ==
    /\ pc = "break"
    /\ Len(history) >= 6
    /\ Len(initial_cars) = 3
    /\ Cardinality({Differing(history[i], history[i + 1]) :
                       i \in 1 .. Len(history) - 1}) >= 2

\* The step processed the popped board: it was marked visited and goal-tested.
ProcessedStep == history' # <<>> /\ history'[Len(history')] = board'

\* C13: every State is processed (marked visited, goal-tested, expanded) at
\* most once: the visited set only grows, a processed board was not in it
\* before and is in it afterwards, and a popped board already in it is
\* discarded, leaving the visited set, the log and the loop untouched and
\* pushing nothing.
C13_ProcessedAtMostOnce ==
    [][ /\ boards_seen \subseteq boards_seen'
        /\ (pc = "loop" /\ queue # <<>>)
           => /\ board' = queue[Len(queue)].board
              /\ IF board' \in boards_seen
                 THEN /\ ~ ProcessedStep
                      /\ boards_seen' = boards_seen
                      /\ log' = log
                      /\ pc' = "loop"
                      /\ moves' = <<>>
                      /\ Len(queue') = Len(queue) - 1
                 ELSE /\ ProcessedStep
                      /\ boards_seen' = boards_seen \cup {board'}
                      /\ Cardinality(boards_seen') = Cardinality(boards_seen) + 1
      ]_vars

C13_Witness ==
    /\ pc = "loop"
    /\ board \in boards_seen
    /\ ~ Expanded
    /\ Cardinality(boards_seen) >= 5
    /\ moves = <<>>

\* Number of possible_moves steps on a shortest path from a board of
\* `frontier` to `target`, by layers; -1 when there is none.
RECURSIVE DistFrom(_, _, _, _)
DistFrom(frontier, reached, target, d) ==
    IF target \in frontier THEN d
    ELSE IF frontier = {} THEN -1
    ELSE LET reached2 == reached \cup frontier
         IN  DistFrom((UNION {Successors(S) : S \in frontier}) \ reached2,
                      reached2, target, d + 1)

\* The popped board was processed by the last iteration (expanded or goal).
Processed == pc \in {"loop", "break"} /\ history # <<>> /\ history[Len(history)] = board

\* C14: when a State is dequeued for the first time and marked visited, the
\* number of moves in its path equals its minimum distance from the initial
\* State in the move graph; this holds for every visited State.
C14_VisitedByShortestPath ==
    Processed => StepCount(history) = DistFrom({initial_cars}, {}, board, 0)

C14_Witness ==
    /\ Processed
    /\ pc = "loop"
    /\ StepCount(history) >= 4
    /\ Cardinality(boards_seen) >= 20
    /\ \E i \in 1 .. Len(queue) : queue[i].board \in boards_seen

\* C15 (as claimed): when a State is expanded, a successor that is already
\* in the visited set is not pushed, so the queue never receives a State
\* that was visited at the time of the push.
C15_NoVisitedPushed ==
    Expanded => \A i \in 1 .. Len(moves) : queue[i].board \notin boards_seen

\* C15 (amended): when a State is expanded, every successor yielded by
\* possible_moves is pushed with the extended path, whether or not it is
\* already in the visited set.
C15_EverySuccessorPushed ==
    Expanded
    => LET yielded == possible_moves(board)
       IN  /\ Len(queue) >= Len(yielded)
           /\ \A k \in 1 .. Len(yielded) :
                  \E i \in 1 .. Len(yielded) : queue[i] = Entry(yielded[k], history)

C15_Witness ==
    /\ Expanded
    /\ Len(moves) >= 3
    /\ \E i \in 1 .. Len(moves) : queue[i].board \in boards_seen
    /\ \E i \in 1 .. Len(moves) : queue[i].board \notin boards_seen

\* Path lengths never grow from the push end (left) to the pop end (right),
\* and the two ends differ by at most one.
QueueLayered ==
    /\ \A i \in 1 .. Len(queue) - 1 :
           Len(queue[i].history) >= Len(queue[i + 1].history)
    /\ queue # <<>> => Len(queue[1].history) - Len(queue[Len(queue)].history) <= 1

\* One iteration takes the entry at the pop end, keeps the other entries in
\* place and puts the entries of the yielded moves behind them, the first
\* yielded nearest to the pop end.
FifoStep ==
    (pc = "loop" /\ queue # <<>>)
    => LET n == Len(queue') - (Len(queue) - 1)
       IN  /\ board' = queue[Len(queue)].board
           /\ n = Len(moves')
           /\ SubSeq(queue', n + 1, Len(queue')) = SubSeq(queue, 1, Len(queue) - 1)
           /\ \A k \in 1 .. n : queue'[n + 1 - k].board = moves'[k]

\* C16: the deque is used as a first-in first-out queue: entries leave in
\* the order they entered, the successors of one State in the order
\* possible_moves yields them, so the path lengths in the queue are
\* non-decreasing from the pop end to the push end and differ by at most one.
C16_FifoQueue == [] QueueLayered /\ [][FifoStep]_vars

C16_Witness ==
    /\ Expanded
    /\ Len(moves) >= 3
    /\ Len(queue) > Len(moves) + 2
    /\ Len(queue[1].history) = Len(queue[Len(queue)].history) + 1

\* The board holds a vehicle with the five attributes of the target.
TargetIn(S) ==
    \E k \in 1 .. Len(S) :
        /\ S[k].name = "r"
        /\ S[k].x = 2
        /\ S[k].y = 4
        /\ S[k].size = 2
        /\ S[k].direction = "HORIZONTAL"

\* C17: the search ends successfully at a dequeued State exactly when that
\* State holds a vehicle equal to the target in all five attributes; the
\* last State of the logged path holds the target and no earlier one does,
\* and the successors of the goal State are never enqueued.
C17_StopsExactlyAtTarget ==
    /\ Processed => (pc = "break" <=> TargetIn(board))
    /\ pc = "break"
       => /\ \A i \in 1 .. Len(history) - 1 : ~ TargetIn(history[i])
          /\ moves = <<>>
    /\ \A i \in 1 .. Len(queue) :
           LET h == queue[i].history
           IN  h = <<>> \/ ~ TargetIn(h[Len(h)])

C17_Witness ==
    /\ pc = "break"
    /\ Len(history) >= 5
    /\ Len(queue) >= 3
    /\ \E i \in 1 .. Len(history) - 1 :
           \E k \in 1 .. Len(board) :
               history[i][k].name = "r" /\ history[i][k].y = 3

\* The step a pair of consecutive boards stands for: the name of the vehicle
\* whose position changed and the direction its delta points to.
StepOf(S, T) ==
    LET k == CHOOSE k \in Differing(S, T) : TRUE
        drow == T[k].x - S[k].x
        dcol == T[k].y - S[k].y
    IN  << S[k].name,
           IF drow < 0 THEN "Up"
           ELSE IF drow > 0 THEN "Down"
           ELSE IF dcol < 0 THEN "Left"
           ELSE "Right" >>

\* C18: for the path the solver logs, print_moves emits exactly one step per
\* consecutive pair of boards, carrying the name of the vehicle whose
\* position changed and the direction of its delta (row down: Up, row up:
\* Down, column down: Left, column up: Right); the number of steps emitted
\* is the reported total, len(history) - 1.
C18_OneStepPerPair ==
    pc = "break"
    => /\ Len(ReportedMoves) = Len(history) - 1
       /\ ReportedSteps = Len(history) - 1
       /\ \A i \in 1 .. Len(history) - 1 :
              /\ Cardinality(Differing(history[i], history[i + 1])) = 1
              /\ ReportedMoves[i] = StepOf(history[i], history[i + 1])

C18_Witness ==
    /\ pc = "break"
    /\ Len(ReportedMoves) >= 4
    /\ \E i \in 1 .. Len(ReportedMoves) : ReportedMoves[i][2] = "Down"
    /\ \E i \in 1 .. Len(ReportedMoves) : ReportedMoves[i][2] = "Right"
    /\ Cardinality({ReportedMoves[i][1] : i \in 1 .. Len(ReportedMoves)}) >= 2

\* S has the arity of the initial tuple and, index by index, the name, size
\* and orientation of its vehicles.
SameFleet(S) ==
    /\ Len(S) = Len(initial_cars)
    /\ \A k \in 1 .. Len(initial_cars) :
           /\ S[k].name = initial_cars[k].name
           /\ S[k].size = initial_cars[k].size
           /\ S[k].direction = initial_cars[k].direction

\* The indices of T whose vehicle bears the name of the vehicle at index k of S.
ByName(S, T, k) == {j \in 1 .. Len(T) : T[j].name = S[k].name}

NamesDistinct(cars) ==
    \A j, k \in 1 .. Len(cars) : cars[j].name = cars[k].name => j = k

RECURSIVE ReachFrom(_, _)
ReachFrom(frontier, reached) ==
    IF frontier = {} THEN reached
    ELSE LET reached2 == reached \cup frontier
         IN  ReachFrom((UNION {Successors(S) : S \in frontier}) \ reached2, reached2)

\* C20: moves are reversible: every successor possible_moves yields from a
\* well-formed board has that board among its own successors; so the set of
\* boards reachable from the board the search stopped at is the set
\* reachable from the initial configuration, and once the search has run
\* out of boards every visited board reaches exactly the visited set.
C20_MovesReversible ==
    /\ (Expanded /\ WellFormed(board))
       => \A k \in 1 .. Len(moves) : board \in Successors(moves[k])
    /\ (pc \in {"break", "exhausted"} /\ WellFormed(initial_cars))
       => ReachFrom({board}, {}) = ReachFrom({initial_cars}, {})
    /\ (pc = "exhausted" /\ WellFormed(initial_cars))
       => \A S \in boards_seen : ReachFrom({S}, {}) = boards_seen

C20_Witness ==
    /\ Expanded
    /\ WellFormed(board)
    /\ Len(board) = 3
    /\ Len(moves) >= 4
    /\ board # initial_cars

C20_ReachWitness ==
    /\ pc = "exhausted"
    /\ WellFormed(initial_cars)
    /\ Cardinality(boards_seen) >= 3

====
